---- MODULE Spec2Model ----
(***************************************************************************)
(* A model of halonctl's remote-call core:                                 *)
(*   - halonctl/util.py    async_dispatch, nodesort, the shared executor   *)
(*   - halonctl/proxies.py NodeSoapProxy, NodeListSoapProxy, CommandProxy  *)
(*   - halon/proxies.py    the older tornado based NodeSoapProxy           *)
(*                                                                         *)
(* The module holds one specification per component:                       *)
(*   Spec        a multi-node fan-out call (NodeListSoapProxy ->           *)
(*               async_dispatch -> nodesort) on the shared thread pool     *)
(*   SpecCall    one single-node call through NodeSoapProxy                *)
(*   SpecSort    nodesort applied to an arbitrary {node: result} mapping   *)
(*   SpecSession CommandProxy sessions driven call by call                 *)
(*   SpecSessions two CommandProxy objects driven in turn                  *)
(*   SpecCodec   to_base64 and from_base64 applied to a string              *)
(*   SpecPool    two fan-out calls at once on the shared thread pool       *)
(*   SpecQueue   the same with batches that fill the pool, tasks counted   *)
(* Every specification leaves the other components' variables unchanged.   *)
(*                                                                         *)
(* Text is a sequence of one-character strings (<<"n", "1", "0">> is the   *)
(* name "n10"); a Python dict or OrderedDict is the sequence of its        *)
(* [key, value] items in iteration order.                                  *)
(***************************************************************************)
EXTENDS Integers, Sequences, FiniteSets, TLC

VARIABLES
    \* ---- fan-out call (Spec)
    pc,        \* where the caller of nodes.service.<name>() is
    nodelist,  \* the set of nodes of NodeListSoapProxy.nodelist
    futures,   \* node -> the future submitted for it (its state and outcome)
    ret,       \* the OrderedDict the call returned
    err,       \* the exception that escaped the call, or None
    \* ---- single-node call (SpecCall)
    callPc, callImpl, callOp, callOutcome, callRet,
    \* ---- nodesort alone (SpecSort)
    sortPc, sortIn, sortOut,
    \* ---- CommandProxy sessions (SpecSession)
    sessions,  \* session -> [done, node, cid]
    lastCall,  \* what the last CommandProxy method call did
    allPc,     \* where a running all() is
    allOf,     \* the session all() runs on
    allPolls,  \* the poll responses all() has seen, in order
    allChunks, \* the chunks ''.join has taken from the iterator so far
    allResult, \* the string all() returned
    \* ---- the Base64 helpers (SpecCodec)
    codecPc,   \* which of the helpers have been applied
    codecPy,   \* the major version of the Python that runs the program
    codecIn,   \* the value the caller has
    codecEnc,  \* what to_base64 gave for it
    codecOut,  \* what from_base64 gave
    \* ---- concurrent fan-out calls (SpecPool)
    calls,     \* caller -> its call: where it is, its batch, its futures
               \* (the local dict of async_dispatch), what it got back
    \* ---- the pool under load (SpecQueue)
    dispatches \* caller -> its call: where it is, the size of its batch and
               \* how many of its tasks are submitted, running, finished

fanVars     == <<pc, nodelist, futures, ret, err>>
callVars    == <<callPc, callImpl, callOp, callOutcome, callRet>>
sortVars    == <<sortPc, sortIn, sortOut>>
sessionVars == <<sessions, lastCall, allPc, allOf, allPolls, allChunks, allResult>>
codecVars   == <<codecPc, codecPy, codecIn, codecEnc, codecOut>>
poolVars    == <<calls>>
queueVars   == <<dispatches>>
vars        == <<fanVars, callVars, sortVars, sessionVars, codecVars, poolVars, queueVars>>

None == "None"

\* a step of one component leaves the others alone
FanOnly     == UNCHANGED <<callVars, sortVars, sessionVars, codecVars, poolVars, queueVars>>
CallOnly    == UNCHANGED <<fanVars, sortVars, sessionVars, codecVars, poolVars, queueVars>>
SortOnly    == UNCHANGED <<fanVars, callVars, sessionVars, codecVars, poolVars, queueVars>>
SessionOnly == UNCHANGED <<fanVars, callVars, sortVars, codecVars, poolVars, queueVars>>
CodecOnly   == UNCHANGED <<fanVars, callVars, sortVars, sessionVars, poolVars, queueVars>>
PoolOnly    == UNCHANGED <<fanVars, callVars, sortVars, sessionVars, codecVars, queueVars>>
QueueOnly   == UNCHANGED <<fanVars, callVars, sortVars, sessionVars, codecVars, poolVars>>

(***************************************************************************)
(* Bounds of the model.                                                    *)
(***************************************************************************)
\* the largest batch of nodes one fan-out call is given
MaxBatch == 3
\* the longest mapping nodesort is applied to on its own
MaxSortLen == 4
\* the most polls one all() traversal makes
MaxPolls == 3
\* the longest string the Base64 helpers are applied to
MaxText == 2

(***************************************************************************)
(* Natural sort (natsort.natsorted with its default algorithm): a string   *)
(* is split into maximal runs of digits and of other characters, a digit   *)
(* run counts by its integer value, and a string that starts with a digit  *)
(* gets an empty string in front so that text and numbers alternate.       *)
(***************************************************************************)
Digits == {"0", "1", "2", "3", "4", "5", "6", "7", "8", "9"}

IsDigit(c) == c \in Digits

DigitVal(c) ==
    CASE c = "0" -> 0 [] c = "1" -> 1 [] c = "2" -> 2 [] c = "3" -> 3
      [] c = "4" -> 4 [] c = "5" -> 5 [] c = "6" -> 6 [] c = "7" -> 7
      [] c = "8" -> 8 [] c = "9" -> 9

\* the code point of a character that occurs in a cluster or node name
Ord(c) ==
    CASE IsDigit(c) -> 48 + DigitVal(c)
      [] c = "-" -> 45
      [] c = "a" -> 97 [] c = "b" -> 98 [] c = "n" -> 110
      [] OTHER -> 122

RECURSIVE IntOfDigits(_)
\* int(run) of a run of digits; leading zeros do not count
IntOfDigits(run) ==
    IF run = <<>> THEN 0
    ELSE 10 * IntOfDigits(SubSeq(run, 1, Len(run) - 1)) + DigitVal(run[Len(run)])

RECURSIVE Runs(_)
\* re.split on (\d+): the maximal runs of digits and of non-digits
Runs(s) ==
    IF s = <<>> THEN <<>>
    ELSE LET r == Runs(Tail(s))
             h == Head(s)
         IN IF r # <<>> /\ IsDigit(Head(r)[1]) = IsDigit(h)
            THEN <<(<<h>> \o Head(r))>> \o Tail(r)
            ELSE <<(<<h>>)>> \o r

StrToken(run) == [num |-> FALSE, val |-> 0, str |-> run]
NumToken(run) == [num |-> TRUE, val |-> IntOfDigits(run), str |-> <<>>]

\* (mutant) digit runs compared as text, as plain sorted() would
TokenAsText(run) == StrToken(run)

\* one run as natsort compares it
Token(run) == IF IsDigit(run[1]) THEN NumToken(run) ELSE StrToken(run)

\* natsort's key of one string
natsort_key(s) ==
    LET runs == Runs(s)
        toks == [i \in 1..Len(runs) |-> Token(runs[i])]
    IN IF runs # <<>> /\ IsDigit(runs[1][1]) THEN <<StrToken(<<>>)>> \o toks ELSE toks

RECURSIVE StrLess(_, _)
\* Python's < on two strings: by code point, a proper prefix first
StrLess(a, b) ==
    IF b = <<>> THEN FALSE
    ELSE IF a = <<>> THEN TRUE
    ELSE IF Head(a) # Head(b) THEN Ord(Head(a)) < Ord(Head(b))
    ELSE StrLess(Tail(a), Tail(b))

\* < on two elements of a natsort key (text and numbers alternate, so two
\* elements at one position are of one kind; Python 2 puts a number first)
TokLess(a, b) ==
    IF a.num /\ b.num THEN a.val < b.val
    ELSE IF ~a.num /\ ~b.num THEN StrLess(a.str, b.str)
    ELSE a.num

RECURSIVE TupLess(_, _)
\* Python's < on two tuples of key elements
TupLess(a, b) ==
    IF b = <<>> THEN FALSE
    ELSE IF a = <<>> THEN TRUE
    ELSE IF Head(a) # Head(b) THEN TokLess(Head(a), Head(b))
    ELSE TupLess(Tail(a), Tail(b))

\* nodesort's key: lambda t: [t[0].cluster.name, t[0].name], each string of
\* the list keyed by natsort
NodeKey(n) == <<natsort_key(n.cluster), natsort_key(n.name)>>

KeyLess(a, b) == TupLess(a[1], b[1]) \/ (a[1] = b[1] /\ TupLess(a[2], b[2]))

RECURSIVE Insert(_, _)
\* x put into the sorted s behind every item that is not greater than it
Insert(x, s) ==
    IF s = <<>> THEN <<x>>
    ELSE IF KeyLess(NodeKey(x.key), NodeKey(Head(s).key)) THEN <<x>> \o s
    ELSE <<Head(s)>> \o Insert(x, Tail(s))

RECURSIVE natsorted(_)
\* natsorted(items, key=...): sorted() is stable, so items whose keys are
\* equal stay in the order they came in
natsorted(items) ==
    IF items = <<>> THEN <<>>
    ELSE Insert(items[Len(items)], natsorted(SubSeq(items, 1, Len(items) - 1)))

\* nodesort(nodes): the items of the dict, naturally sorted, as an OrderedDict
nodesort(items) == natsorted(items)

(***************************************************************************)
(* Nodes.  A node is known by its name, which is unique in the             *)
(* configuration, and belongs to one cluster.                              *)
(***************************************************************************)
Node(c, n) == [cluster |-> c, name |-> n]

NodeUniverse ==
    { Node(<<"a">>, <<"n", "1">>),
      Node(<<"a">>, <<"n", "2">>),
      Node(<<"a">>, <<"n", "1", "0">>),
      Node(<<"a">>, <<"n", "2", "0">>),
      Node(<<"a">>, <<"n", "0", "1">>),
      Node(<<"b">>, <<"n", "0">>) }

\* the orders in which a set (or a dict of a Python without ordered dicts)
\* may hand out its members
RECURSIVE Orders(_)
Orders(S) ==
    IF S = {} THEN {<<>>}
    ELSE UNION { { <<x>> \o rest : rest \in Orders(S \ {x}) } : x \in S }

Keys(items) == { items[i].key : i \in 1..Len(items) }

(***************************************************************************)
(* The transport.  What one round trip to a node ends in: a reply with an  *)
(* HTTP status and a body, or an exception of the HTTP library.            *)
(***************************************************************************)
\* the ways a round trip fails, and the exception requests.post raises
Failures ==
    { "connection refused", "dns failure", "tls failure", "connect timeout",
      "read timeout", "connection broken in the body" }

RequestsException(failure) ==
    CASE failure = "connection refused" -> "ConnectionError"
      [] failure = "dns failure" -> "ConnectionError"
      [] failure = "tls failure" -> "SSLError"
      [] failure = "connect timeout" -> "ConnectTimeout"
      [] failure = "read timeout" -> "ReadTimeout"
      [] failure = "connection broken in the body" -> "ChunkedEncodingError"

\* the classes of requests.exceptions a class derives from, itself included
RequestsBases(cls) ==
    CASE cls = "ConnectionError" -> {"ConnectionError", "RequestException"}
      [] cls = "SSLError" -> {"SSLError", "ConnectionError", "RequestException"}
      [] cls = "ConnectTimeout" ->
            {"ConnectTimeout", "ConnectionError", "Timeout", "RequestException"}
      [] cls = "ReadTimeout" -> {"ReadTimeout", "Timeout", "RequestException"}
      [] cls = "ChunkedEncodingError" -> {"ChunkedEncodingError", "RequestException"}

\* the statuses a node of a fan-out answers with, and those a single call sees
ReplyStatuses == {200, 500}
CallStatuses == {200, 401, 404, 500}

Reply(status) ==
    [kind |-> "reply", status |-> status,
     body |-> IF status = 200 THEN "data" ELSE "fault", failure |-> None]

Failure(f) == [kind |-> "failure", status |-> 0, body |-> None, failure |-> f]

OutcomesWith(statuses) == { Reply(s) : s \in statuses } \cup { Failure(f) : f \in Failures }

Outcomes == OutcomesWith(ReplyStatuses)

\* what a call gives its caller: a (status, payload) pair or an exception
Return(status, payload) == [kind |-> "return", value |-> <<status, payload>>, exc |-> None]
Raise(cls) == [kind |-> "raise", value |-> <<>>, exc |-> cls]
NoResult == [kind |-> "none", value |-> <<>>, exc |-> None]

\* context.process_reply(r.text, r.status_code, r.reason): the status of the
\* reply and its decoded payload
process_reply(o) == Return(o.status, o.body)

\* the except clause of halonctl's NodeSoapProxy
Handled(cls) == RequestsBases(cls) \cap {"ConnectionError", "Timeout"} # {}

\* halonctl.proxies.NodeSoapProxy.__getattr__._soap_proxy_executor
soap_proxy_executor(o) ==
    IF o.kind = "reply" THEN process_reply(o)
    ELSE IF Handled(RequestsException(o.failure)) THEN Return(0, None)
    ELSE Raise(RequestsException(o.failure))

\* what tornado's HTTPClient.fetch raises for a failed round trip: the
\* socket's own error, or an HTTPError with the code 599 and no response
TornadoException(failure) ==
    CASE failure = "connection refused" -> "socket.error"
      [] failure = "dns failure" -> "socket.gaierror"
      [] failure = "tls failure" -> "ssl.SSLError"
      [] failure = "connect timeout" -> "HTTPError"
      [] failure = "read timeout" -> "HTTPError"
      [] failure = "connection broken in the body" -> "HTTPError"

\* halon.proxies.NodeSoapProxy.__getattr__._soap_proxy_executor; a reply
\* with an error status reaches process_reply through except HTTPError
halon_soap_proxy_executor(o) ==
    IF o.kind = "reply" THEN process_reply(o)
    ELSE IF TornadoException(o.failure) = "HTTPError"
         THEN process_reply([o EXCEPT !.status = 599])
         ELSE Return(0, "e.message")

Operations ==
    {"commandRun", "commandPoll", "commandPush", "commandSignal", "commandStop"}

Implementations == {"halonctl", "halon"}

CallInit ==
    /\ callPc = "idle"
    /\ callImpl = None
    /\ callOp = None
    /\ callOutcome = Failure(None)
    /\ callRet = NoResult

\* node.service.<name>(...): the request is built and posted
CallInvoke(impl, op) ==
    /\ CallOnly
    /\ callPc = "idle"
    /\ callPc' = "sent"
    /\ callImpl' = impl
    /\ callOp' = op
    /\ UNCHANGED <<callOutcome, callRet>>

\* the round trip ends in o, and the proxy returns or raises
CallComplete(o) ==
    /\ CallOnly
    /\ callPc = "sent"
    /\ callPc' = "done"
    /\ callOutcome' = o
    /\ callRet' = IF callImpl = "halonctl" THEN soap_proxy_executor(o)
                  ELSE halon_soap_proxy_executor(o)
    /\ UNCHANGED <<callImpl, callOp>>

CallForget ==
    /\ CallOnly
    /\ callPc = "done"
    /\ callPc' = "idle"
    /\ callImpl' = None
    /\ callOp' = None
    /\ callOutcome' = Failure(None)
    /\ callRet' = NoResult

NextCall ==
    \/ \E impl \in Implementations, op \in Operations : CallInvoke(impl, op)
    \/ \E o \in OutcomesWith(CallStatuses) : CallComplete(o)
    \/ CallForget

(***************************************************************************)
(* The fan-out call:                                                       *)
(*   nodesort(async_dispatch({node: (getattr(node.service, name), args,    *)
(*                                   kwargs) for node in self.nodelist}))  *)
(* on the module's one ThreadPoolExecutor.                                 *)
(***************************************************************************)
\* executor = ThreadPoolExecutor(64)
max_workers == 64

Absent == [state |-> "absent", result |-> NoResult]
Future(state, result) == [state |-> state, result |-> result]

Finished(fs, batch) == { k \in batch : fs[k].state = "finished" }

\* (mutant) wait(futures, return_when=FIRST_COMPLETED)
wait_first_completed(fs, batch) == Finished(fs, batch) # {}

\* wait(futures) lets its caller go on: return_when is ALL_COMPLETED and
\* there is no timeout
wait_returns(fs, batch) == Finished(fs, batch) = batch

\* (mutant) the nodes that did not answer are left out of the result
ItemsOfAnswered(fs, order) ==
    LET ok == SelectSeq(order, LAMBDA k : fs[k].result.value[1] # 0)
    IN [i \in 1..Len(ok) |-> [key |-> ok[i], value |-> fs[ok[i]].result.value]]

\* (mutant) the keys taken in one order and the results in the other
ItemsCrossed(fs, order) ==
    [i \in 1..Len(order) |->
        [key |-> order[i], value |-> fs[order[Len(order) + 1 - i]].result.value]]

\* { futures[future]: future.result() for future in done }, the futures of
\* done taken in the given order
ResultItems(fs, order) ==
    [i \in 1..Len(order) |-> [key |-> order[i], value |-> fs[order[i]].result.value]]

\* the first future of done, in the given order, whose result() raises
FirstRaising(fs, order) ==
    LET at == { i \in 1..Len(order) : fs[order[i]].result.kind = "raise" }
    IN IF at = {} THEN 0 ELSE CHOOSE i \in at : \A j \in at : i <= j

FanInit ==
    /\ pc = "idle"
    /\ nodelist = {}
    /\ futures = [n \in NodeUniverse |-> Absent]
    /\ ret = <<>>
    /\ err = None

\* nodes.service.<name>(*args, **kwargs): the task dict is built, one task
\* per node of the list, and async_dispatch is entered
FanOutCall(batch) ==
    /\ FanOnly
    /\ pc = "idle"
    /\ nodelist' = batch
    /\ futures' = [n \in NodeUniverse |->
                     IF n \in batch THEN Future("unsubmitted", NoResult) ELSE Absent]
    /\ pc' = "submitting"
    /\ UNCHANGED <<ret, err>>

\* executor.submit(...) for the next item of the task dict
Submit(k) ==
    /\ FanOnly
    /\ pc = "submitting"
    /\ futures[k].state = "unsubmitted"
    /\ futures' = [futures EXCEPT ![k] = Future("pending", NoResult)]
    /\ UNCHANGED <<pc, nodelist, ret, err>>

\* the dict comprehension is through: wait(futures) is called
BeginWait ==
    /\ FanOnly
    /\ pc = "submitting"
    /\ \A k \in nodelist : futures[k].state # "unsubmitted"
    /\ pc' = "waiting"
    /\ UNCHANGED <<nodelist, futures, ret, err>>

\* a worker thread of the pool takes a queued task
Start(k) ==
    /\ FanOnly
    /\ futures[k].state = "pending"
    /\ Cardinality({ n \in NodeUniverse : futures[n].state = "running" }) < max_workers
    /\ futures' = [futures EXCEPT ![k] = Future("running", NoResult)]
    /\ UNCHANGED <<pc, nodelist, ret, err>>

\* the task, node.service.<name>(*args, **kwargs), ends: the future holds
\* what NodeSoapProxy returned or raised
Finish(k, o) ==
    /\ FanOnly
    /\ futures[k].state = "running"
    /\ futures' = [futures EXCEPT ![k] = Future("finished", soap_proxy_executor(o))]
    /\ UNCHANGED <<pc, nodelist, ret, err>>

\* wait() returns; the results are read off the done futures and sorted
Collect(order) ==
    /\ FanOnly
    /\ pc = "waiting"
    /\ wait_returns(futures, nodelist)
    /\ LET bad == FirstRaising(futures, order)
       IN IF bad # 0
          THEN /\ pc' = "raised"
               /\ err' = futures[order[bad]].result.exc
               /\ ret' = <<>>
          ELSE /\ pc' = "returned"
               /\ ret' = nodesort(ResultItems(futures, order))
               /\ err' = None
    /\ UNCHANGED <<nodelist, futures>>

\* the caller goes on; nothing of the call is kept
Forget ==
    /\ FanOnly
    /\ pc \in {"returned", "raised"}
    /\ pc' = "idle"
    /\ nodelist' = {}
    /\ futures' = [n \in NodeUniverse |-> Absent]
    /\ ret' = <<>>
    /\ err' = None

Batches == { b \in SUBSET NodeUniverse : Cardinality(b) \in 1..MaxBatch }

Next ==
    \/ \E b \in Batches : FanOutCall(b)
    \/ \E k \in NodeUniverse : Submit(k)
    \/ BeginWait
    \/ \E k \in NodeUniverse : Start(k)
    \/ \E k \in NodeUniverse, o \in Outcomes : Finish(k, o)
    \/ \E order \in Orders(Finished(futures, nodelist)) : Collect(order)
    \/ Forget

(***************************************************************************)
(* nodesort on its own, applied to any mapping of up to MaxSortLen nodes   *)
(* in any iteration order.                                                 *)
(***************************************************************************)
\* the result a node of the mapping carries: the nodes of cluster "a" whose
\* name ends in "0" did not answer, cluster "b" answered with a fault
SortValue(n) ==
    IF n.cluster = <<"b">> THEN <<500, "fault">>
    ELSE IF n.name[Len(n.name)] = "0" THEN <<0, None>>
    ELSE <<200, "data">>

SortInputsUpTo(len) ==
    UNION { { [i \in 1..Len(order) |-> [key |-> order[i], value |-> SortValue(order[i])]] :
              order \in Orders(S) } :
            S \in { T \in SUBSET NodeUniverse : Cardinality(T) <= len } }

SortInit ==
    /\ sortPc = "given"
    /\ sortIn \in SortInputsUpTo(MaxSortLen)
    /\ sortOut = <<>>

SortOff ==
    /\ sortPc = "off"
    /\ sortIn = <<>>
    /\ sortOut = <<>>

\* nodesort(nodes)
SortApply ==
    /\ SortOnly
    /\ sortPc = "given"
    /\ sortPc' = "sorted"
    /\ sortOut' = nodesort(sortIn)
    /\ UNCHANGED sortIn

(***************************************************************************)
(* Base64 (base64.b64encode / b64decode).  A byte string is a sequence of  *)
(* numbers 0..255; Base64 text is the sequence of the positions of its     *)
(* characters in the Base64 alphabet, with 64 for the padding "=".         *)
(***************************************************************************)
RECURSIVE b64encode(_)
b64encode(b) ==
    IF b = <<>> THEN <<>>
    ELSE IF Len(b) = 1 THEN <<b[1] \div 4, (b[1] % 4) * 16, 64, 64>>
    ELSE IF Len(b) = 2
         THEN <<b[1] \div 4, (b[1] % 4) * 16 + b[2] \div 16, (b[2] % 16) * 4, 64>>
         ELSE <<b[1] \div 4, (b[1] % 4) * 16 + b[2] \div 16,
                (b[2] % 16) * 4 + b[3] \div 64, b[3] % 64>>
              \o b64encode(SubSeq(b, 4, Len(b)))

RECURSIVE b64decode(_)
\* of well-formed Base64 text (whole groups of four characters)
b64decode(t) ==
    IF t = <<>> THEN <<>>
    ELSE IF t[3] = 64 THEN <<t[1] * 4 + t[2] \div 16>>
    ELSE IF t[4] = 64
         THEN <<t[1] * 4 + t[2] \div 16, (t[2] % 16) * 16 + t[3] \div 4>>
         ELSE <<t[1] * 4 + t[2] \div 16, (t[2] % 16) * 16 + t[3] \div 4,
                (t[3] % 4) * 64 + t[4]>>
              \o b64decode(SubSeq(t, 5, Len(t)))

RECURSIVE Join(_)
\* ''.join(strings)
Join(strings) == IF strings = <<>> THEN <<>> ELSE Head(strings) \o Join(Tail(strings))

(***************************************************************************)
(* The remote side of a command session.  Every RPC of a session goes      *)
(* through node.service, so it ends in a (code, res) pair or, where the    *)
(* proxy lets one through, in an exception.                                *)
(***************************************************************************)
\* the output a remote process writes and the input a caller sends it
Samples == { <<104, 105>>, <<255>> }

\* a Python value that is a string, or None
Str(t)  == [none |-> FALSE, text |-> t]
PyNone  == [none |-> TRUE, text |-> <<>>]

\* the res of a response: an object with an item list (of Base64 strings),
\* or a plain value without one
WithItems(items) == [has_item |-> TRUE, item |-> items, plain |-> PyNone]
Plain(v)         == [has_item |-> FALSE, item |-> <<>>, plain |-> v]

SessionStatuses == {0, 200, 204, 500}

Response(code, res) == [kind |-> "reply", code |-> code, res |-> res, exc |-> None]
Raised(cls)         == [kind |-> "raise", code |-> 0, res |-> Plain(PyNone), exc |-> cls]
NoResponse          == [kind |-> "none", code |-> 0, res |-> Plain(PyNone), exc |-> None]

\* what a poll finds the process to have written since the last one: a
\* list of pieces, each a byte string
ProcessOutputs == { <<>>, << <<104, 105>> >>, << <<255>>, <<104, 105>> >> }

\* the res of a commandPoll answered with 200: the pieces as an item list
\* of Base64 strings, or an empty string when there are none
PollOutput(pieces) ==
    IF pieces = <<>> THEN Plain(Str(<<>>))
    ELSE WithItems([i \in 1..Len(pieces) |-> b64encode(pieces[i])])

PollOutputs == { PollOutput(pieces) : pieces \in ProcessOutputs }

\* what an RPC answers with another status
ResOf(code) == IF code = 500 THEN Plain(Str(<<102>>)) ELSE Plain(PyNone)

Failing == { Response(c, ResOf(c)) : c \in SessionStatuses \ {200} }
            \cup { Raised("ChunkedEncodingError") }

PollResponses == { Response(200, o) : o \in PollOutputs } \cup Failing

RpcResponses == { Response(200, Plain(PyNone)) } \cup Failing

(***************************************************************************)
(* CommandProxy.                                                           *)
(***************************************************************************)
SessionIds == {1, 2}

\* the node and the command id a session is constructed with
HandleOf(s) == IF s = 1 THEN [node |-> "n1", cid |-> "cid-7"]
               ELSE [node |-> "n2", cid |-> "cid-9"]

\* class CommandProxy: done = False
class_done == FALSE

Unconstructed == [made |-> FALSE, own_done |-> <<>>, node |-> None, cid |-> None]

\* self.done: the instance's own attribute, or else the class's
Done(session) == IF session.own_done = <<>> THEN class_done ELSE session.own_done[1]

\* self.done = True
SetDone(session) == [session EXCEPT !.own_done = <<TRUE>>]

\* (mutant) every 2xx status taken for success
Success2xx(code) == code \in 200..299

\* the one status the methods of CommandProxy compare with: code == 200
Success(code) == code = 200

\* (mutant) self.done = (code != 200) on every response
TrackCode(session, code) == [session EXCEPT !.own_done = <<code # 200>>]

\* if code != 200: self.done = True
AfterCode(session, code) == IF ~Success(code) THEN SetDone(session) ELSE session

\* (mutant) stop() that sets done only when the stop RPC fails
AfterStopChecked(session, resp) ==
    IF resp.kind = "reply" /\ resp.code # 200 THEN SetDone(session) ELSE session

\* stop(): self.done = True, before the RPC and whatever it answers
AfterStop(session, resp) == SetDone(session)

\* an RPC on the wire: its name and what it carries besides the command id
Rpc(name, cid, data, sig) == [name |-> name, commandid |-> cid, data |-> data, signal |-> sig]
NoRpc == Rpc("none", None, <<>>, 0)

\* what a method call gave its caller
Returned(code, value) == [kind |-> "return", code |-> code, value |-> value, exc |-> None]
Stopped  == [kind |-> "StopIteration", code |-> 0, value |-> PyNone, exc |-> None]
Threw(cls) == [kind |-> "raise", code |-> 0, value |-> PyNone, exc |-> cls]
Nothing == [kind |-> "none", code |-> 0, value |-> PyNone, exc |-> None]

\* the record of one method call: the method, the session, its done flag
\* before the call, the RPC the call made, the answer to it, the outcome
Call(op, s, before, arg, rpc, resp, out) ==
    [op |-> op, sid |-> s, done_before |-> before, arg |-> arg, rpc |-> rpc,
     resp |-> resp, out |-> out]

\* the argument of a method call: none, the data of a write, or the sigid
\* of a signal, which is an int or a string
NoArg       == [type |-> "none", val |-> 0, text |-> <<>>]
Data(bytes) == [type |-> "bytes", val |-> 0, text |-> bytes]
IntArg(n)   == [type |-> "int", val |-> n, text |-> <<>>]
StrArg(t)   == [type |-> "str", val |-> 0, text |-> t]

NoCall == Call("none", 0, FALSE, NoArg, NoRpc, NoResponse, Nothing)

\* ''.join([b64decode(item) for item in res.item]) if hasattr(res, 'item')
\* else res
ChunkOf(res) ==
    IF res.has_item
    THEN Str(Join([i \in 1..Len(res.item) |-> b64decode(res.item[i])]))
    ELSE res.plain

\* read(): the pair it returns, or the exception of the RPC
ReadOut(resp) ==
    IF resp.kind = "raise" THEN Threw(resp.exc)
    ELSE Returned(resp.code, ChunkOf(resp.res))

\* (mutant) next() that takes a poll without output for the end
NextOutEndsOnEmpty(resp) ==
    IF resp.kind = "raise" THEN Threw(resp.exc)
    ELSE IF Success(resp.code) /\ ChunkOf(resp.res).text # <<>>
         THEN Returned(resp.code, ChunkOf(resp.res))
         ELSE Stopped

\* (mutant) next() that polls on after a chunk without output and so
\* hands out nothing for that poll
NextOutSkipsEmpty(resp) ==
    IF resp.kind = "raise" THEN Threw(resp.exc)
    ELSE IF Success(resp.code) /\ ChunkOf(resp.res).text # <<>>
         THEN Returned(resp.code, ChunkOf(resp.res))
    ELSE IF Success(resp.code) THEN Nothing
    ELSE Stopped

\* next(): code, data = self.read(); the chunk if code == 200, else
\* StopIteration
NextOut(resp) ==
    IF resp.kind = "raise" THEN Threw(resp.exc)
    ELSE IF Success(resp.code) THEN Returned(resp.code, ChunkOf(resp.res))
    ELSE Stopped

\* (mutant) the payload of a failed RPC is dropped
RawOutNoneOnFailure(resp) ==
    IF resp.kind = "raise" THEN Threw(resp.exc)
    ELSE Returned(resp.code, IF Success(resp.code) THEN resp.res.plain ELSE PyNone)

\* what the RPC of a write, signal or stop returned is handed on as it is
RawOut(resp) ==
    IF resp.kind = "raise" THEN Threw(resp.exc)
    ELSE Returned(resp.code, resp.res.plain)

\* the session after a method that sets done on a status other than 200
AfterResponse(session, resp) ==
    IF resp.kind = "raise" THEN session ELSE AfterCode(session, resp.code)

(***************************************************************************)
(* signal(sigid): int(sigid), or else the attribute of the signal module   *)
(* that sigid.upper() names.                                               *)
(***************************************************************************)
Upper(c) ==
    CASE c = "a" -> "A" [] c = "b" -> "B" [] c = "c" -> "C" [] c = "d" -> "D"
      [] c = "e" -> "E" [] c = "f" -> "F" [] c = "g" -> "G" [] c = "h" -> "H"
      [] c = "i" -> "I" [] c = "j" -> "J" [] c = "k" -> "K" [] c = "l" -> "L"
      [] c = "m" -> "M" [] c = "n" -> "N" [] c = "o" -> "O" [] c = "p" -> "P"
      [] c = "q" -> "Q" [] c = "r" -> "R" [] c = "s" -> "S" [] c = "t" -> "T"
      [] c = "u" -> "U" [] c = "v" -> "V" [] c = "w" -> "W" [] c = "x" -> "X"
      [] c = "y" -> "Y" [] c = "z" -> "Z" [] OTHER -> c

\* (mutant) the name looked up as it was given
AsGiven(t) == t

\* sigid.upper()
upper(t) == [i \in 1..Len(t) |-> Upper(t[i])]

AllDigits(t) == t # <<>> /\ \A i \in 1..Len(t) : IsDigit(t[i])

\* whether int(text) succeeds: digits, with a sign in front or without
IsNumeric(t) ==
    \/ AllDigits(t)
    \/ (t # <<>> /\ Head(t) \in {"+", "-"} /\ AllDigits(Tail(t)))

\* int(text) of a numeric text
IntOfText(t) ==
    IF Head(t) = "-" THEN 0 - IntOfDigits(Tail(t))
    ELSE IF Head(t) = "+" THEN IntOfDigits(Tail(t))
    ELSE IntOfDigits(t)

\* the integer attributes of the signal module with upper-case names (on
\* Linux): the signals and the module's other constants
SignalModule ==
    { <<(<<"S", "I", "G", "H", "U", "P">>), 1>>,
      <<(<<"S", "I", "G", "I", "N", "T">>), 2>>,
      <<(<<"S", "I", "G", "K", "I", "L", "L">>), 9>>,
      <<(<<"S", "I", "G", "T", "E", "R", "M">>), 15>>,
      <<(<<"S", "I", "G", "_", "D", "F", "L">>), 0>>,
      <<(<<"S", "I", "G", "_", "I", "G", "N">>), 1>>,
      <<(<<"N", "S", "I", "G">>), 65>> }

HasAttr(name) == \E a \in SignalModule : a[1] = name
GetAttr(name) == (CHOOSE a \in SignalModule : a[1] = name)[2]

\* the try / except ValueError of signal(): the number to send, or the
\* AttributeError of getattr
Resolve(sigid) ==
    IF sigid.type = "int" THEN [ok |-> TRUE, sig |-> sigid.val]
    ELSE IF IsNumeric(sigid.text) THEN [ok |-> TRUE, sig |-> IntOfText(sigid.text)]
    ELSE IF HasAttr(upper(sigid.text)) THEN [ok |-> TRUE, sig |-> GetAttr(upper(sigid.text))]
    ELSE [ok |-> FALSE, sig |-> 0]

\* the sigids a caller passes
SigIds ==
    { IntArg(15),
      StrArg(<<"1", "5">>),
      IntArg(9),
      StrArg(<<"9">>),
      StrArg(<<"S", "I", "G", "K", "I", "L", "L">>),
      StrArg(<<"s", "i", "g", "k", "i", "l", "l">>),
      StrArg(<<"S", "I", "G", "T", "E", "R", "M">>),
      StrArg(<<"s", "i", "g", "t", "e", "r", "m">>),
      StrArg(<<"S", "i", "g", "K", "i", "l", "l">>),
      StrArg(<<"s", "i", "g", "_", "d", "f", "l">>),
      StrArg(<<"b", "o", "g", "u", "s">>) }

\* the sessions a caller drives in SpecSession
OneSession == {1}

SessionInit ==
    /\ sessions = [s \in OneSession |-> Unconstructed]
    /\ lastCall = NoCall
    /\ allPc = "idle"
    /\ allOf = 0
    /\ allPolls = <<>>
    /\ allChunks = <<>>
    /\ allResult = <<>>

\* the caller is not inside all(), nor about to take its result
Free == allPc = "idle"

\* CommandProxy(node, cid)
CommandProxy_init(s) ==
    /\ SessionOnly
    /\ Free
    /\ ~sessions[s].made
    /\ sessions' = [sessions EXCEPT ![s] =
                      [made |-> TRUE, own_done |-> <<>>,
                       node |-> HandleOf(s).node, cid |-> HandleOf(s).cid]]
    /\ lastCall' = Call("__init__", s, FALSE, NoArg, NoRpc, NoResponse, Nothing)
    /\ UNCHANGED <<allPc, allOf, allPolls, allChunks, allResult>>

\* (mutant) a poll without output ends the session
AfterNextEndsOnEmpty(session, resp) ==
    IF resp.kind = "reply" /\ (~Success(resp.code) \/ ChunkOf(resp.res).text = <<>>)
    THEN SetDone(session)
    ELSE session

\* the session after next(): read() and then next() itself set done
AfterNext(session, resp) ==
    IF NextOut(resp).kind = "StopIteration"
    THEN SetDone(AfterResponse(session, resp))
    ELSE AfterResponse(session, resp)

PollRpc(session) == Rpc("commandPoll", session.cid, <<>>, 0)

\* cmd.read(), the remote answering resp
read(s, resp) ==
    /\ SessionOnly
    /\ Free
    /\ sessions[s].made
    /\ sessions' = [sessions EXCEPT ![s] = AfterResponse(@, resp)]
    /\ lastCall' = Call("read", s, Done(sessions[s]), NoArg, PollRpc(sessions[s]),
                        resp, ReadOut(resp))
    /\ UNCHANGED <<allPc, allOf, allPolls, allChunks, allResult>>

\* cmd.next(), called by the caller's own loop
next(s, resp) ==
    /\ SessionOnly
    /\ Free
    /\ sessions[s].made
    /\ sessions' = [sessions EXCEPT ![s] = AfterNext(@, resp)]
    /\ lastCall' = Call("next", s, Done(sessions[s]), NoArg, PollRpc(sessions[s]),
                        resp, NextOut(resp))
    /\ UNCHANGED <<allPc, allOf, allPolls, allChunks, allResult>>

\* cmd.write(data)
write(s, data, resp) ==
    /\ SessionOnly
    /\ Free
    /\ sessions[s].made
    /\ sessions' = [sessions EXCEPT ![s] = AfterResponse(@, resp)]
    /\ lastCall' = Call("write", s, Done(sessions[s]), Data(data),
                        Rpc("commandPush", sessions[s].cid, b64encode(data), 0),
                        resp, RawOut(resp))
    /\ UNCHANGED <<allPc, allOf, allPolls, allChunks, allResult>>

\* cmd.signal(sigid)
signal(s, sigid, resp) ==
    /\ SessionOnly
    /\ Free
    /\ sessions[s].made
    /\ LET r == Resolve(sigid)
       IN IF r.ok
          THEN /\ sessions' = [sessions EXCEPT ![s] = AfterResponse(@, resp)]
               /\ lastCall' = Call("signal", s, Done(sessions[s]), sigid,
                                   Rpc("commandSignal", sessions[s].cid, <<>>, r.sig),
                                   resp, RawOut(resp))
          ELSE /\ sessions' = sessions
               /\ lastCall' = Call("signal", s, Done(sessions[s]), sigid, NoRpc,
                                   NoResponse, Threw("AttributeError"))
    /\ UNCHANGED <<allPc, allOf, allPolls, allChunks, allResult>>

\* (mutant) stop() that sets done on the class: CommandProxy.done = True
stop_on_class(s, resp) ==
    /\ SessionOnly
    /\ Free
    /\ sessions[s].made
    /\ sessions' = [t \in DOMAIN sessions |->
                      IF sessions[t].made THEN SetDone(sessions[t]) ELSE sessions[t]]
    /\ lastCall' = Call("stop", s, Done(sessions[s]), NoArg,
                        Rpc("commandStop", sessions[s].cid, <<>>, 0), resp, RawOut(resp))
    /\ UNCHANGED <<allPc, allOf, allPolls, allChunks, allResult>>

\* cmd.stop()
stop(s, resp) ==
    /\ SessionOnly
    /\ Free
    /\ sessions[s].made
    /\ sessions' = [sessions EXCEPT ![s] = AfterStop(@, resp)]
    /\ lastCall' = Call("stop", s, Done(sessions[s]), NoArg,
                        Rpc("commandStop", sessions[s].cid, <<>>, 0), resp, RawOut(resp))
    /\ UNCHANGED <<allPc, allOf, allPolls, allChunks, allResult>>

\* cmd.all() is called: ''.join(self) starts to draw from the iterator
all_begin(s) ==
    /\ SessionOnly
    /\ Free
    /\ sessions[s].made
    /\ allPc' = "joining"
    /\ allOf' = s
    /\ allPolls' = <<>>
    /\ allChunks' = <<>>
    /\ allResult' = <<>>
    /\ UNCHANGED <<sessions, lastCall>>

\* ''.join draws once more: one next() on the session; on StopIteration it
\* returns the chunks joined (a chunk that is no string is a TypeError)
all_step(resp) ==
    /\ SessionOnly
    /\ allPc = "joining"
    /\ Len(allPolls) < MaxPolls
    /\ LET s == allOf
           out == NextOut(resp)
       IN /\ sessions' = [sessions EXCEPT ![s] = AfterNext(@, resp)]
          /\ lastCall' = Call("next", s, Done(sessions[s]), NoArg, PollRpc(sessions[s]),
                              resp, out)
          /\ allPolls' = Append(allPolls, resp)
          /\ allChunks' = IF out.kind = "return" THEN Append(allChunks, out.value)
                          ELSE allChunks
          /\ allPc' = IF out.kind = "return" THEN "joining"
                      ELSE IF out.kind = "raise" THEN "raised"
                      ELSE IF \E i \in 1..Len(allChunks) : allChunks[i].none THEN "raised"
                      ELSE "returned"
          /\ allResult' = IF out.kind = "StopIteration"
                          THEN Join([i \in 1..Len(allChunks) |-> allChunks[i].text])
                          ELSE <<>>
    /\ UNCHANGED allOf

\* the caller has taken what all() returned
all_forget ==
    /\ SessionOnly
    /\ allPc \in {"returned", "raised"}
    /\ allPc' = "idle"
    /\ allOf' = 0
    /\ allPolls' = <<>>
    /\ allChunks' = <<>>
    /\ allResult' = <<>>
    /\ UNCHANGED <<sessions, lastCall>>

NextSession ==
    \/ \E s \in DOMAIN sessions : CommandProxy_init(s)
    \/ \E s \in DOMAIN sessions, resp \in PollResponses : read(s, resp)
    \/ \E s \in DOMAIN sessions, resp \in PollResponses : next(s, resp)
    \/ \E s \in DOMAIN sessions, data \in Samples, resp \in RpcResponses : write(s, data, resp)
    \/ \E s \in DOMAIN sessions, sigid \in SigIds, resp \in RpcResponses : signal(s, sigid, resp)
    \/ \E s \in DOMAIN sessions, resp \in RpcResponses : stop(s, resp)
    \/ \E s \in DOMAIN sessions : all_begin(s)
    \/ \E resp \in PollResponses : all_step(resp)
    \/ all_forget

\* two sessions, on two nodes, driven in any order; what the nodes answer
\* is a success or a failure
PairInit ==
    /\ sessions = [s \in SessionIds |-> Unconstructed]
    /\ lastCall = NoCall
    /\ allPc = "idle"
    /\ allOf = 0
    /\ allPolls = <<>>
    /\ allChunks = <<>>
    /\ allResult = <<>>

PairPollResponses == { Response(200, PollOutput(<< <<104, 105>> >>)), Response(500, ResOf(500)) }

PairRpcResponses == { Response(200, Plain(PyNone)), Response(0, ResOf(0)) }

NextPair ==
    \/ \E s \in DOMAIN sessions : CommandProxy_init(s)
    \/ \E s \in DOMAIN sessions, resp \in PairPollResponses : read(s, resp)
    \/ \E s \in DOMAIN sessions, resp \in PairPollResponses : next(s, resp)
    \/ \E s \in DOMAIN sessions, resp \in PairRpcResponses : write(s, <<104, 105>>, resp)
    \/ \E s \in DOMAIN sessions, resp \in PairRpcResponses : signal(s, IntArg(15), resp)
    \/ \E s \in DOMAIN sessions, resp \in PairRpcResponses : stop(s, resp)

SessionOff ==
    /\ sessions = [s \in SessionIds |-> Unconstructed]
    /\ lastCall = NoCall
    /\ allPc = "off"
    /\ allOf = 0
    /\ allPolls = <<>>
    /\ allChunks = <<>>
    /\ allResult = <<>>

(***************************************************************************)
(* The Base64 helpers of util.py:                                          *)
(*   to_base64(s):   u"" if not s else                                     *)
(*       b64encode(s.encode('utf8', 'replace')).decode('utf-8', 'replace') *)
(*   from_base64(s): u"" if not s else                                     *)
(*       b64decode(s.encode('utf8', 'replace')).decode('utf-8', 'replace') *)
(* A byte string is a sequence of bytes, a text (unicode in Python 2, str  *)
(* in Python 3) a sequence of code points; Base64 text is ASCII, so its    *)
(* encoding to bytes and back leaves its characters as they are.           *)
(***************************************************************************)
PyBytes(b) == [kind |-> "bytes", seq |-> b]
PyText(t)  == [kind |-> "text", seq |-> t]
NoneValue  == [kind |-> "none", seq |-> <<>>]

\* the bytes strings are made of: h, i, the two bytes of e-acute in UTF-8
\* and a byte no UTF-8 text holds
ByteSamples == {104, 105, 195, 169, 255}
\* the code points texts are made of: h and e-acute
CodePointSamples == {104, 233}

RECURSIVE SeqsUpTo(_, _)
SeqsUpTo(S, n) ==
    IF n = 0 THEN {<<>>}
    ELSE SeqsUpTo(S, n - 1)
         \cup { Append(q, x) : q \in { r \in SeqsUpTo(S, n - 1) : Len(r) = n - 1 }, x \in S }

CodecInputsUpTo(n) ==
    {NoneValue} \cup { PyBytes(b) : b \in SeqsUpTo(ByteSamples, n) }
                \cup { PyText(t) : t \in SeqsUpTo(CodePointSamples, n) }

ReplacementCharacter == 65533

Gave(text)    == [kind |-> "return", text |-> text, exc |-> None]
Failed(cls)   == [kind |-> "raise", text |-> <<>>, exc |-> cls]
NotApplied    == [kind |-> "none", text |-> <<>>, exc |-> None]

RECURSIVE utf8_encode(_)
\* text.encode('utf8', 'replace'), of code points below 65536 that are no
\* surrogates
utf8_encode(t) ==
    IF t = <<>> THEN <<>>
    ELSE LET c == Head(t)
         IN (IF c < 128 THEN <<c>>
             ELSE IF c < 2048 THEN <<192 + (c \div 64), 128 + (c % 64)>>
             ELSE <<224 + (c \div 4096), 128 + ((c \div 64) % 64), 128 + (c % 64)>>)
            \o utf8_encode(Tail(t))

RECURSIVE utf8_decode_replace(_)
\* bytes.decode('utf-8', 'replace'), of bytes among which there is no lead
\* byte of a three or four byte sequence: a byte that is no part of a
\* sequence becomes U+FFFD
utf8_decode_replace(b) ==
    IF b = <<>> THEN <<>>
    ELSE IF b[1] < 128 THEN <<b[1]>> \o utf8_decode_replace(Tail(b))
    ELSE IF b[1] \in 194..223 /\ Len(b) >= 2 /\ b[2] \in 128..191
         THEN <<(b[1] - 192) * 64 + (b[2] - 128)>>
              \o utf8_decode_replace(SubSeq(b, 3, Len(b)))
         ELSE <<ReplacementCharacter>> \o utf8_decode_replace(Tail(b))

\* whether the implicit ASCII decoding goes through that Python 2 puts in
\* front of str.encode
IsAscii(b) == \A i \in 1..Len(b) : b[i] < 128

\* `not s`
Falsy(s) == s.kind = "none" \/ s.seq = <<>>

\* to_base64(s).  s.encode of a byte string: Python 3's bytes has no
\* encode, Python 2's str is first decoded as ASCII, strictly
to_base64(py, s) ==
    IF Falsy(s) THEN Gave(<<>>)
    ELSE IF s.kind = "text" THEN Gave(b64encode(utf8_encode(s.seq)))
    ELSE IF py = 3 THEN Failed("AttributeError")
    ELSE IF ~IsAscii(s.seq) THEN Failed("UnicodeDecodeError")
    ELSE Gave(b64encode(s.seq))

\* from_base64(s) of None or of Base64 text; the result is a text
from_base64(py, s) ==
    IF Falsy(s) THEN Gave(<<>>)
    ELSE Gave(utf8_decode_replace(b64decode(s.seq)))

\* the two Pythons the program is written for (six, __future__)
Pythons == {2, 3}

CodecInit ==
    /\ codecPc = "given"
    /\ codecPy \in Pythons
    /\ codecIn \in CodecInputsUpTo(MaxText)
    /\ codecEnc = NotApplied
    /\ codecOut = NotApplied

CodecOff ==
    /\ codecPc = "off"
    /\ codecPy = 0
    /\ codecIn = NoneValue
    /\ codecEnc = NotApplied
    /\ codecOut = NotApplied

\* to_base64(s)
CodecEncode ==
    /\ CodecOnly
    /\ codecPc = "given"
    /\ codecPc' = "encoded"
    /\ codecEnc' = to_base64(codecPy, codecIn)
    /\ UNCHANGED <<codecPy, codecIn, codecOut>>

\* from_base64(to_base64(s)), when to_base64 returned
CodecDecode ==
    /\ CodecOnly
    /\ codecPc = "encoded"
    /\ codecEnc.kind = "return"
    /\ codecPc' = "decoded"
    /\ codecOut' = from_base64(codecPy, PyText(codecEnc.text))
    /\ UNCHANGED <<codecPy, codecIn, codecEnc>>

\* from_base64 of what a node sent: the Base64 text of the bytes, or None
CodecReceive ==
    /\ CodecOnly
    /\ codecPc = "given"
    /\ codecIn.kind # "text"
    /\ codecPc' = "received"
    /\ codecOut' = from_base64(codecPy, IF codecIn.kind = "none" THEN NoneValue
                                          ELSE PyText(b64encode(codecIn.seq)))
    /\ UNCHANGED <<codecPy, codecIn, codecEnc>>

NextCodec ==
    \/ CodecEncode
    \/ CodecDecode
    \/ CodecReceive

(***************************************************************************)
(* Fan-out calls made at the same time by several threads of the program.  *)
(* Each call runs NodeListSoapProxy's executor and async_dispatch with its *)
(* own locals (tasks, futures, done); the module's executor is the one     *)
(* thing the calls share.                                                  *)
(***************************************************************************)
Callers == {1, 2}

\* the nodes of the configuration the callers address
PoolNodes == { Node(<<"a">>, <<"n", "1">>), Node(<<"a">>, <<"n", "2">>) }

PoolBatches == (SUBSET PoolNodes) \ {{}}

\* what a node answers in these calls
PoolOutcomes ==
    { Reply(200), Reply(500), Failure("read timeout"),
      Failure("connection broken in the body") }

NoOutcome == Failure(None)

NoCallYet ==
    [pc |-> "idle", batch |-> {}, futures |-> [n \in PoolNodes |-> Absent],
     answers |-> [n \in PoolNodes |-> NoOutcome], ret |-> <<>>, err |-> None]

\* (mutant) futures kept in a dict of the module, which the call that
\* came last has replaced
module_futures(cs, c) == cs[CHOOSE d \in Callers : d # c].futures

\* futures is a local of async_dispatch: a call sees its own
own_futures(cs, c) == cs[c].futures

\* the tasks the pool is executing, over all calls
Executing(cs) ==
    { <<c, k>> \in Callers \X PoolNodes : cs[c].futures[k].state = "running" }

\* (mutant) wait() entered as soon as one task is submitted
some_submitted(fs, batch) == \E k \in batch : fs[k].state # "unsubmitted"

\* the dict comprehension of async_dispatch is through
all_submitted(fs, batch) == \A k \in batch : fs[k].state # "unsubmitted"

PoolInit == calls = [c \in Callers |-> NoCallYet]

PoolOff == calls = [c \in {} |-> NoCallYet]

\* nodes.service.<name>(...) of caller c.  The argument of async_dispatch,
\* {node: (getattr(node.service, name), args, kwargs) for node in
\* self.nodelist}, is built first; a member of the list without a service
\* raises AttributeError there, before async_dispatch is entered
PoolCall(c, batch, broken) ==
    /\ PoolOnly
    /\ calls[c].pc = "idle"
    /\ calls' = [calls EXCEPT ![c] =
          IF broken # {}
          THEN [NoCallYet EXCEPT !.pc = "raised", !.batch = batch,
                                 !.err = "AttributeError"]
          ELSE [NoCallYet EXCEPT !.pc = "submitting", !.batch = batch,
                   !.futures = [n \in PoolNodes |->
                       IF n \in batch THEN Future("unsubmitted", NoResult) ELSE Absent]]]

\* executor.submit(...) for the next item of the task dict
PoolSubmit(c, k) ==
    /\ PoolOnly
    /\ calls[c].pc = "submitting"
    /\ calls[c].futures[k].state = "unsubmitted"
    /\ calls' = [calls EXCEPT ![c].futures[k] = Future("pending", NoResult)]

\* wait(futures) is called
PoolBeginWait(c) ==
    /\ PoolOnly
    /\ calls[c].pc = "submitting"
    /\ all_submitted(calls[c].futures, calls[c].batch)
    /\ calls' = [calls EXCEPT ![c].pc = "waiting"]

\* a worker thread of the pool takes a queued task
PoolStart(c, k) ==
    /\ PoolOnly
    /\ calls[c].futures[k].state = "pending"
    /\ Cardinality(Executing(calls)) < max_workers
    /\ calls' = [calls EXCEPT ![c].futures[k] = Future("running", NoResult)]

\* the task ends: node k answered this call with o
PoolFinish(c, k, o) ==
    /\ PoolOnly
    /\ calls[c].futures[k].state = "running"
    /\ calls' = [calls EXCEPT ![c].futures[k] = Future("finished", soap_proxy_executor(o)),
                              ![c].answers[k] = o]

\* wait() returns to caller c; the results are read off the done futures
\* and sorted
PoolCollect(c, order) ==
    /\ PoolOnly
    /\ calls[c].pc = "waiting"
    /\ LET fs == own_futures(calls, c)
       IN /\ wait_returns(fs, calls[c].batch)
          /\ LET bad == FirstRaising(fs, order)
             IN calls' = [calls EXCEPT ![c] =
                   IF bad # 0
                   THEN [@ EXCEPT !.pc = "raised", !.err = fs[order[bad]].result.exc]
                   ELSE [@ EXCEPT !.pc = "returned",
                                  !.ret = nodesort(ResultItems(fs, order))]]

\* the caller goes on; nothing of the call is kept
PoolForget(c) ==
    /\ PoolOnly
    /\ calls[c].pc \in {"returned", "raised"}
    /\ calls' = [calls EXCEPT ![c] = NoCallYet]

NextPool ==
    \/ \E c \in DOMAIN calls, b \in PoolBatches :
          \E broken \in {{}} \cup { {k} : k \in b } : PoolCall(c, b, broken)
    \/ \E c \in DOMAIN calls, k \in PoolNodes : PoolSubmit(c, k)
    \/ \E c \in DOMAIN calls : PoolBeginWait(c)
    \/ \E c \in DOMAIN calls, k \in PoolNodes : PoolStart(c, k)
    \/ \E c \in DOMAIN calls, k \in PoolNodes, o \in PoolOutcomes : PoolFinish(c, k, o)
    \/ \E c \in DOMAIN calls :
          \E order \in Orders(Finished(calls[c].futures, calls[c].batch)) : PoolCollect(c, order)
    \/ \E c \in DOMAIN calls : PoolForget(c)

(***************************************************************************)
(* The pool under load.  The tasks of a call are counted, not told apart:  *)
(* of the size tasks of its batch, submitted have been handed to           *)
(* executor.submit, running are being executed by a worker thread and      *)
(* finished have ended; the others submitted wait in the executor's queue. *)
(***************************************************************************)
\* the sizes of the batches: the first caller addresses one node more than
\* the pool has workers, the second a single node
BatchSizes(c) == IF c = 1 THEN {max_workers + 1} ELSE {1}

NoDispatch == [pc |-> "idle", size |-> 0, submitted |-> 0, running |-> 0, finished |-> 0]

Queued(d) == d.submitted - d.running - d.finished

\* (mutant) a worker thread ends with its first task and is not replaced:
\* the tasks ever started count against the pool
RECURSIVE EverStartedIn(_, _)
EverStartedIn(ds, cs) ==
    IF cs = {} THEN 0
    ELSE LET c == CHOOSE x \in cs : TRUE
         IN ds[c].running + ds[c].finished + EverStartedIn(ds, cs \ {c})

\* the tasks the worker threads are executing, over all calls
RECURSIVE RunningIn(_, _)
RunningIn(ds, cs) ==
    IF cs = {} THEN 0
    ELSE LET c == CHOOSE x \in cs : TRUE
         IN ds[c].running + RunningIn(ds, cs \ {c})

\* (mutant) a thread is started for every task
thread_per_task(n) == TRUE

\* ThreadPoolExecutor(64): a queued task is taken when fewer than
\* max_workers tasks are being executed
worker_free(n) == n < max_workers

QueueInit == dispatches = [c \in Callers |-> NoDispatch]

QueueOff == dispatches = [c \in {} |-> NoDispatch]

\* async_dispatch(tasks) with a dict of n tasks
QueueDispatch(c, n) ==
    /\ QueueOnly
    /\ dispatches[c].pc = "idle"
    /\ dispatches' = [dispatches EXCEPT ![c] =
                        [NoDispatch EXCEPT !.pc = "submitting", !.size = n]]

\* executor.submit(...) for the next item of the task dict
QueueSubmit(c) ==
    /\ QueueOnly
    /\ dispatches[c].pc = "submitting"
    /\ dispatches[c].submitted < dispatches[c].size
    /\ dispatches' = [dispatches EXCEPT ![c].submitted = @ + 1]

\* wait(futures) is called
QueueBeginWait(c) ==
    /\ QueueOnly
    /\ dispatches[c].pc = "submitting"
    /\ dispatches[c].submitted = dispatches[c].size
    /\ dispatches' = [dispatches EXCEPT ![c].pc = "waiting"]

\* a worker thread takes a queued task of call c
QueueStart(c) ==
    /\ QueueOnly
    /\ Queued(dispatches[c]) > 0
    /\ worker_free(RunningIn(dispatches, DOMAIN dispatches))
    /\ dispatches' = [dispatches EXCEPT ![c].running = @ + 1]

\* a task of call c ends
QueueFinish(c) ==
    /\ QueueOnly
    /\ dispatches[c].running > 0
    /\ dispatches' = [dispatches EXCEPT ![c].running = @ - 1, ![c].finished = @ + 1]

\* wait() returns and async_dispatch with it; nothing of the call is kept
QueueReturn(c) ==
    /\ QueueOnly
    /\ dispatches[c].pc = "waiting"
    /\ dispatches[c].finished = dispatches[c].size
    /\ dispatches' = [dispatches EXCEPT ![c] = NoDispatch]

NextQueue ==
    \/ \E c \in DOMAIN dispatches : \E n \in BatchSizes(c) : QueueDispatch(c, n)
    \/ \E c \in DOMAIN dispatches : QueueSubmit(c)
    \/ \E c \in DOMAIN dispatches : QueueBeginWait(c)
    \/ \E c \in DOMAIN dispatches : QueueStart(c)
    \/ \E c \in DOMAIN dispatches : QueueFinish(c)
    \/ \E c \in DOMAIN dispatches : QueueReturn(c)

(***************************************************************************)
(* The specifications.                                                     *)
(***************************************************************************)
Init == FanInit /\ CallInit /\ SortOff /\ SessionOff /\ CodecOff /\ PoolOff /\ QueueOff
Spec == Init /\ [][Next]_vars

InitCall == CallInit /\ FanInit /\ SortOff /\ SessionOff /\ CodecOff /\ PoolOff /\ QueueOff
SpecCall == InitCall /\ [][NextCall]_vars

InitSession == SessionInit /\ FanInit /\ CallInit /\ SortOff /\ CodecOff /\ PoolOff /\ QueueOff
SpecSession == InitSession /\ [][NextSession]_vars

InitSessions ==
    PairInit /\ FanInit /\ CallInit /\ SortOff /\ CodecOff /\ PoolOff /\ QueueOff
SpecSessions == InitSessions /\ [][NextPair]_vars

InitSort == SortInit /\ FanInit /\ CallInit /\ SessionOff /\ CodecOff /\ PoolOff /\ QueueOff
NextSort == SortApply
SpecSort == InitSort /\ [][NextSort]_vars

InitCodec == CodecInit /\ FanInit /\ CallInit /\ SortOff /\ SessionOff /\ PoolOff /\ QueueOff
SpecCodec == InitCodec /\ [][NextCodec]_vars

InitPool == PoolInit /\ FanInit /\ CallInit /\ SortOff /\ SessionOff /\ CodecOff /\ QueueOff
SpecPool == InitPool /\ [][NextPool]_vars

InitQueue ==
    QueueInit /\ FanInit /\ CallInit /\ SortOff /\ SessionOff /\ CodecOff /\ PoolOff
SpecQueue == InitQueue /\ [][NextQueue]_vars

\* what the thread of caller c does next inside async_dispatch
QueueCallerStep(c) == QueueSubmit(c) \/ QueueBeginWait(c) \/ QueueReturn(c)

\* the thread of every caller is scheduled again and again, a task that
\* runs comes to an end, and a queued task gets a worker that is free again
\* and again: the executor's work queue is first in, first out, so the
\* tasks of other calls cannot overtake it for ever
QueueFairness ==
    \A c \in Callers :
        /\ WF_vars(QueueCallerStep(c))
        /\ WF_vars(QueueFinish(c))
        /\ SF_vars(QueueStart(c))

\* when the callers call in the fair specification: the first into an idle
\* pool, the second into a full one, where its task has to queue behind the
\* first call's
CallsUnderLoad(c) ==
    IF c = 1 THEN \A d \in Callers : dispatches[d].pc = "idle"
    ELSE RunningIn(dispatches, Callers) = max_workers

NextQueueLoaded ==
    \/ \E c \in DOMAIN dispatches : \E n \in BatchSizes(c) :
          CallsUnderLoad(c) /\ QueueDispatch(c, n)
    \/ \E c \in DOMAIN dispatches : QueueSubmit(c)
    \/ \E c \in DOMAIN dispatches : QueueBeginWait(c)
    \/ \E c \in DOMAIN dispatches : QueueStart(c)
    \/ \E c \in DOMAIN dispatches : QueueFinish(c)
    \/ \E c \in DOMAIN dispatches : QueueReturn(c)

FairSpecQueue == InitQueue /\ [][NextQueueLoaded]_vars /\ QueueFairness

(***************************************************************************)
(* Claims about the fan-out call (Spec).                                   *)
(***************************************************************************)
CallOver == pc \in {"returned", "raised"}

\* every task of the batch ended in a (status, payload) pair
AllAnswered == \A k \in nodelist : futures[k].result.kind = "return"

StatusesIn(items) == { items[i].value[1] : i \in 1..Len(items) }

\* C1: when every node's call ends in a status (success, protocol failure
\* or the transport failure status 0), the fan-out call returns a mapping
\* with exactly one entry per node of the batch: as many entries as nodes,
\* and the nodes of the batch as its keys.
C1_OneEntryPerNode ==
    (CallOver /\ AllAnswered) =>
        /\ pc = "returned"
        /\ Len(ret) = Cardinality(nodelist)
        /\ Keys(ret) = nodelist

\* a call on three nodes returned: one succeeded, one failed in the
\* protocol, one did not answer
C1_Witness ==
    /\ pc = "returned"
    /\ Cardinality(nodelist) >= 3
    /\ {0, 200, 500} \subseteq StatusesIn(ret)

\* C2: when the call returns to its caller, by a result or by an
\* exception, every task submitted for the batch has completed.
C2_JoinAll ==
    CallOver => \A k \in nodelist : futures[k].state = "finished"

\* a call on several nodes is over and some of its tasks ended in a failure
C2_Witness ==
    /\ CallOver
    /\ Cardinality(nodelist) >= 2
    /\ \E k \in nodelist : futures[k].result \in {Return(0, None), Return(500, "fault")}
    /\ \E k \in nodelist : futures[k].result = Return(200, "data")

\* C4 (as claimed): whatever happens inside one node's task, the fan-out
\* call returns normally with a mapping that has an entry for every node.
C4_NeverAborts ==
    CallOver => (pc = "returned" /\ Keys(ret) = nodelist)

\* the nodes of a mapping, in its order
KeySeq(items) == [i \in 1..Len(items) |-> items[i].key]

\* one sequence of nodes for every set of nodes: how nodesort leaves them
\* when the done set hands them out in one fixed order
OneOrderOf(batch) ==
    KeySeq(nodesort(ResultItems(futures, CHOOSE o \in Orders(batch) : TRUE)))

\* C20 (as claimed): the sequence of nodes in the result of a fan-out call
\* is a function of the set of nodes alone: however the tasks completed and
\* however the done set hands out its futures, it is the same sequence.
C20_OrderIndependent ==
    pc = "returned" => KeySeq(ret) = OneOrderOf(nodelist)

(***************************************************************************)
(* Claims about the single-node call (SpecCall).                           *)
(***************************************************************************)
\* C3 (as claimed): for every operation and every transport failure the
\* single-node call proxy returns exactly (0, None) and raises nothing
\* (stated of halonctl's proxy; halon's older proxy returns (0, e.message)
\* or the status 599 for the same failures).
C3_TransportFailureIsZeroNone ==
    (callPc = "done" /\ callImpl = "halonctl" /\ callOutcome.kind = "failure") =>
        callRet = Return(0, None)

(***************************************************************************)
(* Claims about the order of the result (SpecSort).                        *)
(***************************************************************************)
KeyAt(items, i) == NodeKey(items[i].key)

Position(items, n) == CHOOSE i \in 1..Len(items) : items[i].key = n

Made == { s \in DOMAIN sessions : sessions[s].made }

\* the poll was answered, and with the success code
Answered200(resp) == resp.kind = "reply" /\ resp.code = 200

\* the poll, push or signal RPC was answered with another status
AnsweredOther(resp) == resp.kind = "reply" /\ resp.code # 200

\* the output the remote process had written when it answered a poll
Written(resp) ==
    Join(CHOOSE pieces \in ProcessOutputs : PollOutput(pieces) = resp.res)

\* C6: done is false when a session is constructed, and no method call
\* sets a done that is true back to false.
C6_DoneMonotonic ==
    [][\A s \in DOMAIN sessions :
          /\ (~sessions[s].made /\ sessions'[s].made) => ~Done(sessions'[s])
          /\ (sessions[s].made /\ Done(sessions[s])) => Done(sessions'[s])]_vars

\* a call on a terminated session was answered with 200, and done is still
\* true
C6_Witness ==
    /\ lastCall.op \in {"read", "next", "write", "signal"}
    /\ lastCall.done_before
    /\ Answered200(lastCall.resp)
    /\ Done(sessions[lastCall.sid])

\* C7: when read, next, write or signal returns after a response whose
\* status is not 200 - 0, another 2xx code or an error code - done is true.
C7_NonSuccessTerminates ==
    (lastCall.op \in {"read", "next", "write", "signal"} /\ AnsweredOther(lastCall.resp))
        => Done(sessions[lastCall.sid])

\* a write on a running session was answered 204 and terminated it
C7_Witness ==
    /\ lastCall.op = "write"
    /\ ~lastCall.done_before
    /\ lastCall.resp.kind = "reply" /\ lastCall.resp.code = 204
    /\ Done(sessions[lastCall.sid])

\* C8: while all() draws from the iterator every poll so far was answered
\* with 200 and the chunks taken are the outputs of these polls, in order;
\* when all() returns, the last poll is the first one not answered with
\* 200, and the result is the outputs of the polls before it, concatenated
\* (nothing when the first poll already is not a success).
C8_ReadSequence ==
    LET n == Len(allPolls)
        chunks(m) == [i \in 1..m |-> Str(Written(allPolls[i]))]
    IN /\ allPc = "joining" =>
              /\ \A i \in 1..n : Answered200(allPolls[i])
              /\ allChunks = chunks(n)
       /\ allPc = "returned" =>
              /\ n >= 1
              /\ AnsweredOther(allPolls[n])
              /\ \A i \in 1..(n - 1) : Answered200(allPolls[i])
              /\ allChunks = chunks(n - 1)
              /\ allResult = Join([i \in 1..(n - 1) |-> Written(allPolls[i])])

\* all() returned after two polls with output and a poll that failed
C8_Witness ==
    /\ allPc = "returned"
    /\ Len(allPolls) = 3
    /\ allResult = <<255, 104, 105, 104, 105>>

\* C9 (as claimed): a read or next on a session whose done is true yields
\* termination and never a chunk, whatever the remote answers.
C9_NoChunkAfterDone ==
    (lastCall.op \in {"read", "next"} /\ lastCall.done_before) =>
        ~(lastCall.out.kind = "return" /\ lastCall.out.code = 200)

\* C10 (as claimed): a read, write or signal on a session whose done is
\* true issues no poll, push or signal RPC.
C10_NoRpcAfterDone ==
    (lastCall.op \in {"read", "write", "signal"} /\ lastCall.done_before) =>
        lastCall.rpc = NoRpc

\* C11: after stop() done is true, whether the session was running or
\* terminated before and whatever the stop RPC answers (200, a failure
\* status, the status 0), and stop() returns exactly the (status, payload)
\* the RPC reported.
C11_StopTerminates ==
    lastCall.op = "stop" =>
        /\ Done(sessions[lastCall.sid])
        /\ lastCall.rpc = Rpc("commandStop", sessions[lastCall.sid].cid, <<>>, 0)
        /\ lastCall.resp.kind = "reply" =>
               lastCall.out = Returned(lastCall.resp.code, lastCall.resp.res.plain)

\* stop() on a running session was answered 200 and terminated it
C11_Witness ==
    /\ lastCall.op = "stop"
    /\ ~lastCall.done_before
    /\ Answered200(lastCall.resp)
    /\ lastCall.out.kind = "return" /\ lastCall.out.code = 200
    /\ Done(sessions[lastCall.sid])

\* the spellings of a signal a caller may pass, with the signal's number
SignalSpellings ==
    { <<IntArg(15), 15>>,
      <<StrArg(<<"1", "5">>), 15>>,
      <<StrArg(<<"S", "I", "G", "T", "E", "R", "M">>), 15>>,
      <<StrArg(<<"s", "i", "g", "t", "e", "r", "m">>), 15>>,
      <<IntArg(9), 9>>,
      <<StrArg(<<"9">>), 9>>,
      <<StrArg(<<"S", "I", "G", "K", "I", "L", "L">>), 9>>,
      <<StrArg(<<"s", "i", "g", "k", "i", "l", "l">>), 9>>,
      <<StrArg(<<"S", "i", "g", "K", "i", "l", "l">>), 9>> }

\* C12: signal() called with a signal's number, with the number as text or
\* with the signal's name in any letter case issues a commandSignal RPC
\* that carries this signal's number.
C12_SignalSpellingsAgree ==
    lastCall.op = "signal" =>
        \A sp \in SignalSpellings :
            lastCall.arg = sp[1] =>
                lastCall.rpc = Rpc("commandSignal", sessions[lastCall.sid].cid, <<>>, sp[2])

\* signal("sigterm") sent the signal 15
C12_Witness ==
    /\ lastCall.op = "signal"
    /\ lastCall.arg = StrArg(<<"s", "i", "g", "t", "e", "r", "m">>)
    /\ lastCall.rpc.name = "commandSignal"
    /\ lastCall.rpc.signal = 15

\* the name of a signal: SIG and then a letter (SIG_DFL, SIG_IGN and NSIG
\* are constants of the signal module, not signals)
IsSignalName(name) ==
    /\ HasAttr(name)
    /\ Len(name) > 3
    /\ SubSeq(name, 1, 3) = <<"S", "I", "G">>
    /\ name[4] # "_"

\* C13 (as claimed): signal() with a string that is neither a number nor
\* the name of a signal raises, issues no RPC (the signal 0 is never sent)
\* and leaves done as it was.
C13_UnknownNameRaises ==
    (/\ lastCall.op = "signal"
     /\ lastCall.arg.type = "str"
     /\ ~IsNumeric(lastCall.arg.text)
     /\ ~IsSignalName(upper(lastCall.arg.text))) =>
        /\ lastCall.out.kind = "raise"
        /\ lastCall.rpc = NoRpc
        /\ Done(sessions[lastCall.sid]) = lastCall.done_before

\* C18: a read or next whose poll is answered with 200 returns the output
\* of that poll, also when there is none, and leaves done as it was; an
\* all() that draws such a chunk goes on drawing.
C18_SuccessKeepsRunning ==
    (lastCall.op \in {"read", "next"} /\ Answered200(lastCall.resp)) =>
        /\ lastCall.out = Returned(200, Str(Written(lastCall.resp)))
        /\ Done(sessions[lastCall.sid]) = lastCall.done_before
        /\ (allPc # "idle" /\ allPolls # <<>>) => allPc = "joining"

\* an all() drew an empty chunk from a running session and goes on
C18_Witness ==
    /\ allPc = "joining"
    /\ lastCall.op = "next"
    /\ Answered200(lastCall.resp)
    /\ Written(lastCall.resp) = <<>>
    /\ ~lastCall.done_before
    /\ ~Done(sessions[lastCall.sid])

\* C19: write() returns the (status, payload) of the push RPC as it is,
\* for 200, for any other status and for (0, None), also when the call
\* terminated the session.
C19_WriteReturnsRaw ==
    (lastCall.op = "write" /\ lastCall.resp.kind = "reply") =>
        /\ lastCall.rpc = Rpc("commandPush", sessions[lastCall.sid].cid,
                              b64encode(lastCall.arg.text), 0)
        /\ lastCall.out = Returned(lastCall.resp.code, lastCall.resp.res.plain)

\* a write on a running session was answered (500, fault): the pair came
\* back and the session is terminated
C19_Witness ==
    /\ lastCall.op = "write"
    /\ ~lastCall.done_before
    /\ lastCall.resp.kind = "reply" /\ lastCall.resp.code = 500
    /\ lastCall.out = Returned(500, Str(<<102>>))
    /\ Done(sessions[lastCall.sid])

\* C22: a method call on one CommandProxy leaves every other CommandProxy
\* as it was (its done, its node, its command id); no call changes the node
\* or the command id of its own session; and a CommandProxy is not done
\* when it is constructed, also when another one is done by then.
C22_SessionsIndependent ==
    [][\A s \in DOMAIN sessions :
          /\ (sessions[s].made /\ lastCall'.sid # s) => sessions'[s] = sessions[s]
          /\ sessions[s].made =>
                 /\ sessions'[s].node = sessions[s].node
                 /\ sessions'[s].cid = sessions[s].cid
          /\ (~sessions[s].made /\ sessions'[s].made) => ~Done(sessions'[s])]_vars

\* the second session has just been constructed, after the first was
\* stopped: the first is done, the second is not
C22_Witness ==
    /\ lastCall.op = "__init__"
    /\ lastCall.sid = 2
    /\ sessions[1].made /\ Done(sessions[1])
    /\ sessions[2].made /\ ~Done(sessions[2])

\* C24: a call of next() issues one commandPoll for its session; when the
\* poll is answered with 200 it returns the output of this very poll, and
\* when it is answered with another status it raises StopIteration; and an
\* all() has taken one chunk for every poll answered with 200, so that no
\* chunk is polled and then dropped.
C24_OnePollPerStep ==
    /\ lastCall.op = "next" =>
           /\ lastCall.rpc = PollRpc(sessions[lastCall.sid])
           /\ Answered200(lastCall.resp) =>
                  lastCall.out = Returned(200, Str(Written(lastCall.resp)))
           /\ AnsweredOther(lastCall.resp) => lastCall.out = Stopped
    /\ allPc \in {"joining", "returned"} =>
           /\ Len(allChunks) =
                  Cardinality({ i \in 1..Len(allPolls) : Answered200(allPolls[i]) })
           /\ allPolls # <<>> => lastCall.resp = allPolls[Len(allPolls)]

\* next() returned the two pieces of output its one poll carried
C24_Witness ==
    /\ lastCall.op = "next"
    /\ lastCall.rpc.name = "commandPoll"
    /\ lastCall.resp = Response(200, PollOutput(<< <<255>>, <<104, 105>> >>))
    /\ lastCall.out = Returned(200, Str(<<255, 104, 105>>))

(***************************************************************************)
(* Claims about the Base64 helpers (SpecCodec).                            *)
(***************************************************************************)
\* C14 (as claimed): for every byte string, the empty one and those with
\* bytes that are not ASCII or not UTF-8 included, and for None, to_base64
\* raises nothing, from_base64 raises nothing, from_base64(to_base64(b)) is
\* b, and both give the empty string for None.
C14_RoundTrip ==
    codecIn.kind \in {"bytes", "none"} =>
        /\ codecPc \in {"encoded", "decoded"} =>
               /\ codecEnc.kind = "return"
               /\ codecIn.kind = "none" => codecEnc = Gave(<<>>)
        /\ codecPc \in {"decoded", "received"} =>
               /\ codecOut.kind = "return"
               /\ codecIn.kind = "none" => codecOut = Gave(<<>>)
        /\ codecPc = "decoded" => codecOut = Gave(codecIn.seq)

(***************************************************************************)
(* Claims about concurrent fan-out calls (SpecPool).                       *)
(***************************************************************************)
\* C15: whatever another call does on the pool meanwhile, a fan-out call
\* that returns gives a mapping with its own batch as keys, and under each
\* node what this call's own task for the node produced from the node's
\* answer to this call; a caller that is not in a call has no future and
\* no result left.
C15_CallsDoNotInterfere ==
    \A c \in DOMAIN calls :
        /\ calls[c].pc = "returned" =>
               /\ Keys(calls[c].ret) = calls[c].batch
               /\ Len(calls[c].ret) = Cardinality(calls[c].batch)
               /\ \A i \in 1..Len(calls[c].ret) :
                      calls[c].ret[i].value =
                          soap_proxy_executor(calls[c].answers[calls[c].ret[i].key]).value
        /\ calls[c].pc = "idle" => calls[c] = NoCallYet

\* two calls on the same two nodes have both returned, and the nodes
\* answered the one call in another way than the other
C15_Witness ==
    /\ \A c \in Callers : calls[c].pc = "returned" /\ calls[c].batch = PoolNodes
    /\ \A k \in PoolNodes : calls[1].answers[k] # calls[2].answers[k]

\* the entries of a mapping under key k
EntriesOf(items, k) == { i \in 1..Len(items) : items[i].key = k }

\* C21: in the mapping a fan-out call returns, every node of the batch has
\* one entry, and its value is the (status, payload) the proxy makes of
\* what this node answered to this call, in whatever order the tasks
\* completed and the done set handed them out.
C21_ResultUnderOwnKey ==
    \A c \in DOMAIN calls :
        calls[c].pc = "returned" =>
            \A k \in calls[c].batch :
                /\ Cardinality(EntriesOf(calls[c].ret, k)) = 1
                /\ \A i \in EntriesOf(calls[c].ret, k) :
                       calls[c].ret[i].value = soap_proxy_executor(calls[c].answers[k]).value

\* a call on two nodes returned: one node answered 200 and the other did
\* not answer in time
C21_Witness ==
    \E c \in Callers :
        /\ calls[c].pc = "returned"
        /\ calls[c].batch = PoolNodes
        /\ { calls[c].answers[k] : k \in PoolNodes } = {Reply(200), Failure("read timeout")}
        /\ Len(calls[c].ret) = 2
        /\ calls[c].ret[1].value # calls[c].ret[2].value

\* the call was given a list with a member that has no service
BuildFailed(call) ==
    call.pc = "raised" /\ call.err = "AttributeError"

\* C17: when a call waits, or is over after waiting, a task has been
\* submitted for every node of its batch; when building the tasks failed,
\* the call is over with no task submitted and no node contacted.
C17_AllOrNothing ==
    \A c \in DOMAIN calls :
        /\ (calls[c].pc \in {"waiting", "returned", "raised"} /\ ~BuildFailed(calls[c])) =>
               \A k \in calls[c].batch :
                   calls[c].futures[k].state \in {"pending", "running", "finished"}
        /\ BuildFailed(calls[c]) =>
               \A k \in PoolNodes :
                   calls[c].futures[k] = Absent /\ calls[c].answers[k] = NoOutcome

\* one call on two nodes waits with both tasks submitted and none started,
\* the other was aborted while its tasks were built
C17_Witness ==
    \E c, d \in Callers :
        /\ calls[c].pc = "waiting"
        /\ calls[c].batch = PoolNodes
        /\ \A k \in PoolNodes : calls[c].futures[k].state = "pending"
        /\ BuildFailed(calls[d])
        /\ calls[d].batch = PoolNodes

(***************************************************************************)
(* Claims about the pool under load (SpecQueue).                           *)
(***************************************************************************)
\* C16: counted over all the calls that are under way, never more than
\* max_workers (64) tasks are being executed: the calls have one pool.
C16_PoolCapacity ==
    RunningIn(dispatches, DOMAIN dispatches) <= max_workers

\* the pool is full with tasks of both calls and a task waits in the queue
C16_Witness ==
    /\ RunningIn(dispatches, DOMAIN dispatches) = max_workers
    /\ \A c \in Callers : dispatches[c].running > 0
    /\ \E c \in Callers : Queued(dispatches[c]) > 0

\* C23: a dispatch call that has been entered returns, for the batch of
\* one task and for the batch of one task more than the pool has workers,
\* the two calls competing for the workers: every queued task is run in
\* the end and no call waits for ever.
C23_DispatchReturns ==
    \A c \in Callers : (dispatches[c].pc # "idle") ~> (dispatches[c].pc = "idle")

\* the call with more tasks than workers waits for its last task, which is
\* in the queue, all the others having finished
C23_Witness ==
    /\ dispatches[1].pc = "waiting"
    /\ dispatches[1].size = max_workers + 1
    /\ Queued(dispatches[1]) = 1
    /\ dispatches[1].finished = max_workers
    /\ dispatches[2].pc = "waiting"

====
